---- MODULE Spec2Model ----
(***************************************************************************)
(* Calendar-Agent: the chat pipeline of agent.py (intent classification,   *)
(* slot extraction, reference resolution, booking decision) over the       *)
(* booking ledger of FastAPI/database.py.                                  *)
(*                                                                         *)
(* Texts are sequences of one-character strings, so that Python's          *)
(* substring test, str.lower and the regular expressions of the source are *)
(* computed character by character.                                        *)
(***************************************************************************)
EXTENDS Integers, Sequences, FiniteSets, TLC

(***************************************************************************)
(* Characters and strings                                                  *)
(***************************************************************************)
Uppers == <<"A","B","C","D","E","F","G","H","I","J","K","L","M",
            "N","O","P","Q","R","S","T","U","V","W","X","Y","Z">>
Lowers == <<"a","b","c","d","e","f","g","h","i","j","k","l","m",
            "n","o","p","q","r","s","t","u","v","w","x","y","z">>
Digits == <<"0","1","2","3","4","5","6","7","8","9">>

Range(s) == {s[i] : i \in DOMAIN s}

IsUpper(c) == c \in Range(Uppers)
IsLower(c) == c \in Range(Lowers)
IsAlpha(c) == IsUpper(c) \/ IsLower(c)
IsDigit(c) == c \in Range(Digits)
IsSpace(c) == c = " "

\* the position of c in the sequence t that holds it
IndexIn(t, c) == CHOOSE i \in DOMAIN t : t[i] = c

DigitVal(c) == IndexIn(Digits, c) - 1

\* str.lower(), one character
LowerChar(c) == IF IsUpper(c) THEN Lowers[IndexIn(Uppers, c)] ELSE c

\* str.lower()
RECURSIVE lower(_)
lower(s) == IF s = <<>> THEN <<>> ELSE <<LowerChar(Head(s))>> \o lower(Tail(s))

\* s[i:j] with 1-based inclusive bounds; empty when j < i
Slice(s, i, j) == IF j < i THEN <<>> ELSE SubSeq(s, i, j)

\* w occurs in s starting at position i
MatchAt(s, i, w) ==
    /\ i >= 1
    /\ i + Len(w) - 1 <= Len(s)
    /\ \A k \in 1..Len(w) : s[i + k - 1] = w[k]

\* Python: w in s
Contains(s, w) == \E i \in 1..(Len(s) - Len(w) + 1) : MatchAt(s, i, w)

\* Python: any(w in s for w in ws)
ContainsAny(s, ws) == \E w \in ws : Contains(s, w)

\* str.strip() over the blank character
Strip(s) ==
    LET keep == {i \in 1..Len(s) : ~IsSpace(s[i])}
    IN  IF keep = {} THEN <<>>
        ELSE LET a == CHOOSE i \in keep : \A j \in keep : i <= j
                 b == CHOOSE i \in keep : \A j \in keep : j <= i
             IN  Slice(s, a, b)

\* int(s) of a run of decimal digits
RECURSIVE ParseInt(_)
ParseInt(s) ==
    IF s = <<>> THEN 0
    ELSE 10 * ParseInt(Slice(s, 1, Len(s) - 1)) + DigitVal(s[Len(s)])

\* the least element of a non-empty set of integers
Min(S) == CHOOSE x \in S : \A y \in S : x <= y

\* the number of digits at s[i], s[i+1], ... (the greedy run of \d+)
RECURSIVE DigitRun(_, _)
DigitRun(s, i) ==
    IF i <= Len(s) /\ IsDigit(s[i]) THEN 1 + DigitRun(s, i + 1) ELSE 0

\* the number of blanks at s[i], s[i+1], ... (the greedy run of \s*)
RECURSIVE SpaceRun(_, _)
SpaceRun(s, i) ==
    IF i <= Len(s) /\ IsSpace(s[i]) THEN 1 + SpaceRun(s, i + 1) ELSE 0

\* optional values: None, or Some(x)
None == <<>>
Some(x) == <<x>>
IsSome(o) == o # <<>>
Get(o) == o[1]


(***************************************************************************)
(* Intent classifier                                                       *)
(***************************************************************************)
K == [cancel     |-> <<"c","a","n","c","e","l">>,
      delete     |-> <<"d","e","l","e","t","e">>,
      remove     |-> <<"r","e","m","o","v","e">>,
      edit       |-> <<"e","d","i","t">>,
      reschedule |-> <<"r","e","s","c","h","e","d","u","l","e">>,
      move       |-> <<"m","o","v","e">>,
      change     |-> <<"c","h","a","n","g","e">>,
      book       |-> <<"b","o","o","k">>,
      schedule   |-> <<"s","c","h","e","d","u","l","e">>,
      set_up     |-> <<"s","e","t"," ","u","p">>,
      add        |-> <<"a","d","d">>,
      list       |-> <<"l","i","s","t">>,
      show       |-> <<"s","h","o","w">>,
      what       |-> <<"w","h","a","t">>,
      upcoming   |-> <<"u","p","c","o","m","i","n","g">>,
      events     |-> <<"e","v","e","n","t","s">>,
      history    |-> <<"h","i","s","t","o","r","y">>,
      held       |-> <<"h","e","l","d">>,
      free       |-> <<"f","r","e","e">>,
      available  |-> <<"a","v","a","i","l","a","b","l","e">>,
      slots      |-> <<"s","l","o","t","s">>,
      help       |-> <<"h","e","l","p">>,
      how        |-> <<"h","o","w">>]

CancelWords == {K.cancel, K.delete, K.remove}
EditWords == {K.edit, K.reschedule, K.move, K.change}
BookWords == {K.book, K.schedule, K.set_up, K.add}
ListWords == {K.list, K.show, K.what, K.upcoming, K.events, K.history, K.held}
CheckWords == {K.free, K.available, K.slots}
HelpWords == {K.help, K.how}
\* the list family of calendar_utils.extract_intent
UtilsListWords ==
    {K.list, K.show, K.what, K.upcoming, <<"m","e","e","t","i","n","g","s">>}

Intents == {"cancel", "edit", "book", "list", "check", "help", "unknown"}

\* agent.extract_intent, with the order of the cancel and book tests exchanged
extract_intent_book_first(user_msg) ==
    LET msg == lower(user_msg)
    IN  IF ContainsAny(msg, BookWords) THEN "book"
        ELSE IF ContainsAny(msg, EditWords) THEN "edit"
        ELSE IF ContainsAny(msg, CancelWords) THEN "cancel"
        ELSE IF ContainsAny(msg, ListWords) THEN "list"
        ELSE IF ContainsAny(msg, CheckWords) THEN "check"
        ELSE IF ContainsAny(msg, HelpWords) THEN "help"
        ELSE "unknown"

extract_intent(user_msg) ==
    LET msg == lower(user_msg)
    IN  IF ContainsAny(msg, CancelWords) THEN "cancel"
        ELSE IF ContainsAny(msg, EditWords) THEN "edit"
        ELSE IF ContainsAny(msg, BookWords) THEN "book"
        ELSE IF ContainsAny(msg, ListWords) THEN "list"
        ELSE IF ContainsAny(msg, CheckWords) THEN "check"
        ELSE IF ContainsAny(msg, HelpWords) THEN "help"
        ELSE "unknown"

utils_extract_intent(user_msg) ==
    LET msg == lower(user_msg)
    IN  IF ContainsAny(msg, CancelWords) THEN "cancel"
        ELSE IF ContainsAny(msg, EditWords) THEN "edit"
        ELSE IF ContainsAny(msg, BookWords) THEN "book"
        ELSE IF ContainsAny(msg, UtilsListWords) THEN "list"
        ELSE IF ContainsAny(msg, CheckWords) THEN "check"
        ELSE IF ContainsAny(msg, HelpWords) THEN "help"
        ELSE "unknown"

(***************************************************************************)
(* Date-times.  A date-time is [month, day, hour, minute] of the year 2025 *)
(* in UTC; its text is what datetime.isoformat() writes for a              *)
(* timezone-aware value, "2025-MM-DDTHH:MM:00+00:00".                      *)
(***************************************************************************)
DaysInMonth == <<31, 28, 31, 30, 31, 30, 31, 31, 30, 31, 30, 31>>

TwoDigits(n) == <<Digits[(n \div 10) + 1], Digits[(n % 10) + 1]>>

\* datetime.isoformat()
isoformat(dt) ==
    <<"2","0","2","5","-">> \o TwoDigits(dt.month) \o <<"-">> \o TwoDigits(dt.day)
        \o <<"T">> \o TwoDigits(dt.hour) \o <<":">> \o TwoDigits(dt.minute)
        \o <<":","0","0","+","0","0",":","0","0">>

\* dateparser.parse of a text written by isoformat
parse_iso(s) ==
    [month  |-> ParseInt(Slice(s, 6, 7)),
     day    |-> ParseInt(Slice(s, 9, 10)),
     hour   |-> ParseInt(Slice(s, 12, 13)),
     minute |-> ParseInt(Slice(s, 15, 16))]

\* carry whole days of a date-time whose day exceeds its month
RECURSIVE NormalizeDay(_)
NormalizeDay(dt) ==
    IF dt.month < 12 /\ dt.day > DaysInMonth[dt.month]
    THEN NormalizeDay([dt EXCEPT !.month = dt.month + 1,
                                 !.day = dt.day - DaysInMonth[dt.month]])
    ELSE dt

\* dt + timedelta(minutes=n), n >= 0
AddMinutes(dt, n) ==
    LET total == dt.hour * 60 + dt.minute + n
    IN  NormalizeDay([month  |-> dt.month,
                      day    |-> dt.day + total \div 1440,
                      hour   |-> (total % 1440) \div 60,
                      minute |-> total % 60])

\* SQLite's BINARY collation on the characters of an isoformat text
IsoChars == <<"+","-","0","1","2","3","4","5","6","7","8","9",":","T">>

TextLess(a, b) ==
    LET differ == {k \in DOMAIN a \cap DOMAIN b : a[k] # b[k]}
        k == Min(differ)
    IN  IF a = b THEN FALSE
        ELSE IF differ = {} THEN Len(a) < Len(b)
        ELSE IndexIn(IsoChars, a[k]) < IndexIn(IsoChars, b[k])

(***************************************************************************)
(* Slot extractor                                                          *)
(***************************************************************************)
W == [am          |-> <<"a","m">>,
      pm          |-> <<"p","m">>,
      min         |-> <<"m","i","n">>,
      hour        |-> <<"h","o","u","r">>,
      1hour       |-> <<"1","h","o","u","r">>,
      1_hour      |-> <<"1"," ","h","o","u","r">>,
      for_        |-> <<"f","o","r"," ">>,
      last        |-> <<"l","a","s","t">>,
      next        |-> <<"n","e","x","t">>,
      it          |-> <<"i","t">>,
      that        |-> <<"t","h","a","t">>,
      this        |-> <<"t","h","i","s">>,
      context     |-> <<"c","o","n","t","e","x","t">>,
      event       |-> <<"e","v","e","n","t">>,
      call        |-> <<"c","a","l","l">>,
      appointment |-> <<"a","p","p","o","i","n","t","m","e","n","t">>,
      about       |-> <<"a","b","o","u","t">>,
      on          |-> <<"o","n">>,
      for         |-> <<"f","o","r">>,
      Event       |-> <<"E","v","e","n","t">>,
      UTC         |-> <<"U","T","C">>,
      next_week   |-> <<"n","e","x","t"," ","w","e","e","k">>,
      someday     |-> <<"s","o","m","e","d","a","y">>,
      later       |-> <<"l","a","t","e","r">>,
      soon        |-> <<"s","o","o","n">>,
      whenever    |-> <<"w","h","e","n","e","v","e","r">>,
      some_time   |-> <<"s","o","m","e"," ","t","i","m","e">>,
      not_sure    |-> <<"n","o","t"," ","s","u","r","e">>,
      with_       |-> <<"w","i","t","h"," ">>,
      and_        |-> <<" ","a","n","d"," ">>]

\* vague_words without its last entry
vague_words_without_not_sure ==
    {W.next_week, W.someday, W.later, W.soon, W.whenever, W.some_time}

vague_words == {W.next_week, W.someday, W.later, W.soon, W.whenever,
                W.some_time, W.not_sure}

\* (am|pm) of the pattern, case-insensitive, at position i: "am", "pm" or ""
AmPmAt(s, i) ==
    IF MatchAt(lower(s), i, W.am) THEN "am"
    ELSE IF MatchAt(lower(s), i, W.pm) THEN "pm"
    ELSE ""

\* (?::(\d{2})) at position p
ColonMinutesAt(s, p) ==
    /\ p + 2 <= Len(s)
    /\ s[p] = ":"
    /\ IsDigit(s[p + 1])
    /\ IsDigit(s[p + 2])

\* one way of matching (\d{1,2})(?::(\d{2}))?\s*(am|pm) at i: k digits, with
\* or without the minutes group
TimeTry(s, i, k, colon) ==
    LET p == i + k
        q == IF colon THEN p + 3 ELSE p
        r == q + SpaceRun(s, q)
    IN  IF DigitRun(s, i) >= k /\ (colon => ColonMinutesAt(s, p)) /\ AmPmAt(s, r) # ""
        THEN Some([hour   |-> ParseInt(Slice(s, i, i + k - 1)),
                   minute |-> IF colon THEN ParseInt(Slice(s, p + 1, p + 2)) ELSE 0,
                   ampm   |-> AmPmAt(s, r)])
        ELSE None

\* the match of the pattern at i, in the order the regex engine tries
TimeMatchAt(s, i) ==
    IF IsSome(TimeTry(s, i, 2, TRUE)) THEN TimeTry(s, i, 2, TRUE)
    ELSE IF IsSome(TimeTry(s, i, 2, FALSE)) THEN TimeTry(s, i, 2, FALSE)
    ELSE IF IsSome(TimeTry(s, i, 1, TRUE)) THEN TimeTry(s, i, 1, TRUE)
    ELSE TimeTry(s, i, 1, FALSE)

\* re.search(r'(\d{1,2})(?::(\d{2}))?\s*(am|pm)', user_msg, re.I)
time_match(s) ==
    LET at == {i \in 1..Len(s) : IsSome(TimeMatchAt(s, i))}
    IN  IF at = {} THEN None ELSE TimeMatchAt(s, Min(at))

\* re.search(r"(\d+)\s*<unit>", user_msg, re.I): the number of the leftmost
\* match, or None
number_before(s, unit) ==
    LET ok(i) == LET n == DigitRun(s, i)
                 IN  n >= 1 /\ MatchAt(lower(s), i + n + SpaceRun(s, i + n), unit)
        at == {i \in 1..Len(s) : ok(i)}
    IN  IF at = {} THEN None
        ELSE LET i == Min(at)
             IN  Some(ParseInt(Slice(s, i, i + DigitRun(s, i) - 1)))

\* the number of characters from s[i] on that are not in the set stop
RECURSIVE RunOutside(_, _, _)
RunOutside(s, i, stop) ==
    IF i <= Len(s) /\ s[i] \notin stop THEN 1 + RunOutside(s, i + 1, stop) ELSE 0

\* re.search(r"for ([^,\\.;]+)", user_msg, re.I): group(1), or None
summary_match(s) ==
    LET stop == {",", "\\", ".", ";"}
        ok(i) == MatchAt(lower(s), i, W.for_) /\ RunOutside(s, i + 4, stop) >= 1
        at == {i \in 1..Len(s) : ok(i)}
    IN  IF at = {} THEN None
        ELSE LET i == Min(at)
             IN  Some(Slice(s, i + 4, i + 3 + RunOutside(s, i + 4, stop)))

\* the number of characters from s[i] on that satisfy [A-Za-z], or with
\* under = TRUE [A-Za-z_]
RECURSIVE AlphaRun(_, _, _)
AlphaRun(s, i, under) ==
    IF i <= Len(s) /\ (IsAlpha(s[i]) \/ (under /\ s[i] = "_"))
    THEN 1 + AlphaRun(s, i + 1, under) ELSE 0

\* re.search(r"([A-Za-z]+/[A-Za-z_]+)", user_msg): group(1), or None
tz_match(s) ==
    LET slash(i) == i + AlphaRun(s, i, FALSE)
        ok(i) == /\ AlphaRun(s, i, FALSE) >= 1
                 /\ slash(i) <= Len(s)
                 /\ s[slash(i)] = "/"
                 /\ AlphaRun(s, slash(i) + 1, TRUE) >= 1
        at == {i \in 1..Len(s) : ok(i)}
    IN  IF at = {} THEN None
        ELSE LET i == Min(at)
             IN  Some(Slice(s, i, slash(i) + AlphaRun(s, slash(i) + 1, TRUE)))


\* str.upper(), one character
UpperChar(c) == IF IsLower(c) THEN Uppers[IndexIn(Lowers, c)] ELSE c

\* str.title(): a letter that follows no letter is upper-cased, the others
\* are lower-cased
title(s) ==
    [i \in 1..Len(s) |->
        IF i = 1 \/ ~IsAlpha(s[i - 1]) THEN UpperChar(s[i]) ELSE LowerChar(s[i])]

\* re.split(r",| and ", s)
RECURSIVE split_names(_)
split_names(s) ==
    LET cut(i) == IF s[i] = "," THEN 1 ELSE IF MatchAt(s, i, W.and_) THEN 5 ELSE 0
        at == {i \in 1..Len(s) : cut(i) > 0}
    IN  IF at = {} THEN <<s>>
        ELSE LET i == Min(at)
             IN  <<Slice(s, 1, i - 1)>> \o split_names(Slice(s, i + cut(i), Len(s)))

extract_attendees(user_msg) ==
    LET run(i) == RunOutside(user_msg, i,
                             {c \in Range(user_msg) : ~(IsAlpha(c) \/ c = " " \/ c = ",")})
        ok(i) == MatchAt(lower(user_msg), i, W.with_) /\ run(i + 5) >= 1
        at == {i \in 1..Len(user_msg) : ok(i)}
    IN  IF at = {} THEN <<>>
        ELSE LET i == Min(at)
                 names == split_names(Slice(user_msg, i + 5, i + 4 + run(i + 5)))
                 kept == SelectSeq(names, LAMBDA n : Strip(n) # <<>>)
             IN  [k \in 1..Len(kept) |-> title(Strip(kept[k]))]

\* re.search(r"(\d{1,2}(:\d{2})?\s*(am|pm)?)", user_msg, re.I): group(0), or None
reference_time_match(s) ==
    LET at == {i \in 1..Len(s) : IsDigit(s[i])}
    IN  IF at = {} THEN None
        ELSE LET i == Min(at)
                 p == i + (IF DigitRun(s, i) >= 2 THEN 2 ELSE 1)
                 q == IF ColonMinutesAt(s, p) THEN p + 3 ELSE p
                 r == q + SpaceRun(s, q)
                 e == IF AmPmAt(s, r) # "" THEN r + 2 ELSE r
             IN  Some(Slice(s, i, e - 1))

\* re.search(r"(event|call|appointment) (about|on|for) ([^,\\.]+)", user_msg,
\* re.I): group(3), or None
reference_summary_match(s) ==
    LET stop == {",", "\\", "."}
        low == lower(s)
        \* the position after "<noun> <preposition> " when the pattern starts at i
        after(i) ==
            {i + Len(n) + 1 + Len(w) + 1 :
                <<n, w>> \in {nw \in {W.event, W.call, W.appointment}
                                      \X {W.about, W.on, W.for} :
                                 MatchAt(low, i, nw[1] \o <<" ">> \o nw[2] \o <<" ">>)}}
        ok(i) == \E j \in after(i) : RunOutside(s, j, stop) >= 1
        at == {i \in 1..Len(s) : ok(i)}
    IN  IF at = {} THEN None
        ELSE LET i == Min(at)
                 j == CHOOSE j \in after(i) : RunOutside(s, j, stop) >= 1
             IN  Some(Slice(s, j, j + RunOutside(s, j, stop) - 1))

extract_reference(user_msg) ==
    LET tm == reference_time_match(user_msg)
        sm == reference_summary_match(user_msg)
        low == lower(user_msg)
    IN  IF IsSome(tm) THEN tm
        ELSE IF IsSome(sm) THEN Some(Strip(Get(sm)))
        ELSE IF Contains(low, W.last) THEN Some(W.last)
        ELSE IF Contains(low, W.next) THEN Some(W.next)
        ELSE IF ContainsAny(low, {W.it, W.that, W.this}) THEN Some(W.context)
        ELSE None

\* a duration that tests "<N> hour" before "<N> min"
extract_duration_hour_first(user_msg, context_event) ==
    LET low == lower(user_msg)
    IN  IF Contains(low, W.1hour) \/ Contains(low, W.1_hour) THEN 60
        ELSE IF IsSome(number_before(user_msg, W.hour))
             THEN Get(number_before(user_msg, W.hour)) * 60
        ELSE IF IsSome(number_before(user_msg, W.min))
             THEN Get(number_before(user_msg, W.min))
        ELSE IF IsSome(context_event) /\ Get(context_event).duration # 0
             THEN Get(context_event).duration
        ELSE 30

\* the duration of extract_slots (agent.py lines 234-242)
extract_duration(user_msg, context_event) ==
    LET low == lower(user_msg)
    IN  IF Contains(low, W.1hour) \/ Contains(low, W.1_hour) THEN 60
        ELSE IF IsSome(number_before(user_msg, W.min))
             THEN Get(number_before(user_msg, W.min))
        ELSE IF IsSome(number_before(user_msg, W.hour))
             THEN Get(number_before(user_msg, W.hour)) * 60
        ELSE IF IsSome(context_event) /\ Get(context_event).duration # 0
             THEN Get(context_event).duration
        ELSE 30

\* lines 223-233 of extract_slots: the hour and minute of a date-only result
\* refilled from an explicit time of day; None when dt.replace raises
\* ValueError (hour not in 0..23 or minute not in 0..59)
refill_time(user_msg, dt) ==
    LET tm == time_match(user_msg)
    IN  IF dt.hour = 0 /\ dt.minute = 0 /\ IsSome(tm)
        THEN LET hour == IF Get(tm).ampm = "pm" /\ Get(tm).hour # 12
                            THEN Get(tm).hour + 12
                         ELSE IF Get(tm).ampm = "am" /\ Get(tm).hour = 12 THEN 0
                         ELSE Get(tm).hour
                 minute == Get(tm).minute
             IN  IF hour \in 0..23 /\ minute \in 0..59
                 THEN Some([dt EXCEPT !.hour = hour, !.minute = minute])
                 ELSE None
        ELSE Some(dt)

\* extract_slots(user_msg, context_event); found is what search_dates returned
\* for user_msg: None, or Some of the date-time of its first match
extract_slots(user_msg, found, context_event) ==
    LET dt == IF IsSome(found) THEN refill_time(user_msg, Get(found)) ELSE None
        sm == summary_match(user_msg)
        tz == tz_match(user_msg)
        has(f) == IsSome(context_event) /\ Get(context_event)[f] # <<>>
    IN  [raised    |-> IsSome(found) /\ ~IsSome(dt),
         datetime  |-> IF IsSome(dt) THEN Some(isoformat(Get(dt))) ELSE None,
         duration  |-> extract_duration(user_msg, context_event),
         summary   |-> IF IsSome(sm) THEN Strip(Get(sm))
                       ELSE IF has("summary") THEN Get(context_event).summary
                       ELSE W.Event,
         timezone  |-> IF IsSome(tz) THEN Get(tz)
                       ELSE IF has("timezone") THEN Get(context_event).timezone
                       ELSE W.UTC,
         attendees |-> IF extract_attendees(user_msg) # <<>>
                       THEN extract_attendees(user_msg)
                       ELSE IF has("attendees") THEN Get(context_event).attendees
                       ELSE <<>>,
         ambiguity |-> ~IsSome(dt) \/ ContainsAny(lower(user_msg), vague_words),
         reference |-> extract_reference(user_msg)]

(***************************************************************************)
(* The booking ledger (FastAPI/database.py).  A ledger is the sequence of  *)
(* the rows of table bookings in id order; ids are 1, 2, ... because rows  *)
(* are never deleted.  updated_at is the instant datetime.utcnow() gave to *)
(* the statement that last wrote the row.  The columns event_id (a fresh   *)
(* uuid) and created_at (written once, by the INSERT, with the same value  *)
(* as updated_at) are not represented: no statement reads or rewrites them.*)
(***************************************************************************)
save_booking(rows, summary, start_time, end_time, timezone, now) ==
    Append(rows, [id         |-> Len(rows) + 1,
                  summary    |-> summary,
                  start_time |-> start_time,
                  end_time   |-> end_time,
                  timezone   |-> timezone,
                  status     |-> "active",
                  updated_at |-> now])

\* the orders in which SELECT ... WHERE status = ? ORDER BY start_time ASC may
\* return its rows: rows of equal start_time come in either order
RECURSIVE OrderedByStartTime(_, _)
OrderedByStartTime(rows, ids) ==
    IF ids = {} THEN {<<>>}
    ELSE LET firsts == {i \in ids : \A j \in ids :
                           ~TextLess(rows[j].start_time, rows[i].start_time)}
         IN  UNION {{<<rows[i]>> \o rest :
                        rest \in OrderedByStartTime(rows, ids \ {i})} : i \in firsts}

list_bookings(rows, status) ==
    OrderedByStartTime(rows, {i \in DOMAIN rows : rows[i].status = status})

\* get_last_booking without "WHERE status = 'active'"
get_last_booking_any_status(rows) ==
    IF rows = <<>> THEN None ELSE Some(rows[Len(rows)])

\* SELECT ... WHERE status = 'active' ORDER BY id DESC LIMIT 1: None or Some row
get_last_booking(rows) ==
    LET ids == {i \in DOMAIN rows : rows[i].status = "active"}
    IN  IF ids = {} THEN None
        ELSE Some(rows[CHOOSE i \in ids : \A j \in ids : j <= i])

\* cancel_booking whose WHERE clause omits "AND status = 'active'"
cancel_booking_any_status(rows, booking_id, now) ==
    [i \in DOMAIN rows |->
        IF rows[i].id = booking_id
        THEN [rows[i] EXCEPT !.status = "cancelled", !.updated_at = now]
        ELSE rows[i]]

\* cancel_booking whose WHERE clause omits "id = ?"
cancel_booking_every_row(rows, booking_id, now) ==
    [i \in DOMAIN rows |->
        IF rows[i].status = "active"
        THEN [rows[i] EXCEPT !.status = "cancelled", !.updated_at = now]
        ELSE rows[i]]

\* UPDATE bookings SET status = 'cancelled', updated_at = ?
\* WHERE id = ? AND status = 'active'
cancel_booking(rows, booking_id, now) ==
    [i \in DOMAIN rows |->
        IF rows[i].id = booking_id /\ rows[i].status = "active"
        THEN [rows[i] EXCEPT !.status = "cancelled", !.updated_at = now]
        ELSE rows[i]]

\* update_booking whose WHERE clause omits "AND status = 'active'"
update_booking_any_status(rows, booking_id, summary, start_time, end_time, timezone, now) ==
    [i \in DOMAIN rows |->
        IF rows[i].id = booking_id
        THEN [rows[i] EXCEPT !.summary = summary, !.start_time = start_time,
                             !.end_time = end_time, !.timezone = timezone,
                             !.updated_at = now]
        ELSE rows[i]]

\* UPDATE bookings SET summary, start_time, end_time, timezone, updated_at
\* WHERE id = ? AND status = 'active'
update_booking(rows, booking_id, summary, start_time, end_time, timezone, now) ==
    [i \in DOMAIN rows |->
        IF rows[i].id = booking_id /\ rows[i].status = "active"
        THEN [rows[i] EXCEPT !.summary = summary, !.start_time = start_time,
                             !.end_time = end_time, !.timezone = timezone,
                             !.updated_at = now]
        ELSE rows[i]]

(***************************************************************************)
(* Reference resolver                                                      *)
(***************************************************************************)
\* the last row of bookings whose position is in at, or None
LastAt(bookings, at) ==
    IF at = {} THEN None
    ELSE Some(bookings[CHOOSE k \in at : \A j \in at : j <= k])

\* the first row of bookings whose position is in at, or None
FirstAt(bookings, at) ==
    IF at = {} THEN None ELSE Some(bookings[Min(at)])

\* find_booking_by_reference after list_bookings() returned bookings
resolve_reference(bookings, reference, context_event) ==
    LET by_context ==
            {k \in DOMAIN bookings :
                \/ /\ Get(context_event).summary # <<>>
                   /\ Contains(lower(bookings[k].summary),
                               lower(Get(context_event).summary))
                \/ /\ IsSome(Get(context_event).datetime)
                   /\ Contains(bookings[k].start_time, Get(Get(context_event).datetime))}
        by_text ==
            {k \in DOMAIN bookings :
                /\ IsSome(reference)
                /\ Get(reference) # <<>>
                /\ \/ Contains(bookings[k].start_time, Get(reference))
                   \/ Contains(lower(bookings[k].summary), lower(Get(reference)))}
    IN  IF bookings = <<>> THEN None
        ELSE IF reference = Some(W.last) THEN Some(bookings[Len(bookings)])
        ELSE IF reference = Some(W.next) THEN Some(bookings[1])
        ELSE IF /\ reference = Some(W.context)
                /\ IsSome(context_event)
                /\ by_context # {}
             THEN FirstAt(bookings, by_context)
        ELSE FirstAt(bookings, by_text)

\* the rows find_booking_by_reference may return (None: no row), one for
\* each order list_bookings() may return the active rows in
find_booking_by_reference(rows, reference, context_event) ==
    {resolve_reference(bookings, reference, context_event) :
        bookings \in list_bookings(rows, "active")}

(***************************************************************************)
(* Requests.  A request is a message text, what search_dates returns for   *)
(* it (None, or Some date-time), and the context event that                *)
(* get_context_event_from_history returned for the chat history (None when *)
(* there is no history).                                                   *)
(***************************************************************************)
MaxBookings == 2

T == [book              |-> <<"b","o","o","k">>,
      book_1_hour_for_x |-> <<"b","o","o","k"," ","1"," ","h","o","u","r"," ","f","o","r"," ","x">>,
      book_3pm          |-> <<"b","o","o","k"," ","3","p","m">>,
      book_13pm         |-> <<"b","o","o","k"," ","1","3","p","m">>,
      book_later        |-> <<"b","o","o","k"," ","l","a","t","e","r">>,
      book_with_al      |-> <<"b","o","o","k"," ","w","i","t","h"," ","a","l">>,
      cancel            |-> <<"c","a","n","c","e","l">>,
      cancel_last       |-> <<"c","a","n","c","e","l"," ","l","a","s","t">>,
      cancel_next       |-> <<"c","a","n","c","e","l"," ","n","e","x","t">>,
      cancel_that       |-> <<"c","a","n","c","e","l"," ","t","h","a","t">>,
      cancel_15         |-> <<"c","a","n","c","e","l"," ","1","5">>,
      cancel_call_for_x |-> <<"c","a","n","c","e","l"," ","c","a","l","l"," ","f","o","r"," ","x">>,
      move              |-> <<"m","o","v","e">>,
      move_last         |-> <<"m","o","v","e"," ","l","a","s","t">>,
      move_next_for_x   |-> <<"m","o","v","e"," ","n","e","x","t"," ","f","o","r"," ","x">>,
      edit              |-> <<"e","d","i","t">>,
      move_15min_tz |->
          <<"m","o","v","e"," ","1","5","m","i","n"," ","A","s","i","a","/","K","o","l","k","a","t","a">>,
      move_later        |-> <<"m","o","v","e"," ","l","a","t","e","r">>,
      list              |-> <<"l","i","s","t">>,
      free              |-> <<"f","r","e","e">>,
      help              |-> <<"h","e","l","p">>,
      hi                |-> <<"h","i">>,
      x                 |-> <<"x">>,
      X                 |-> <<"X">>,
      next_week_sometime |-> <<"n","e","x","t"," ","w","e","e","k"," ","s","o","m","e","t","i","m","e">>,
      q                 |-> <<"q">>,
      EVENT             |-> <<"E","V","E","N","T">>,
      fifteen           |-> <<"1","5">>,
      T0                |-> <<"T","0">>]

\* what search_dates found: nothing, a date without a time of day (midnight),
\* a date with a time of day
Midnight == [month |-> 6, day |-> 1, hour |-> 0, minute |-> 0]
NineAm == [month |-> 6, day |-> 1, hour |-> 9, minute |-> 0]
\* the context event of a history whose last reply was
\* "Event 'x' booked for <2025-06-01 09:00>"
ContextX == [summary |-> T.x, datetime |-> Some(isoformat(NineAm)),
             duration |-> 30, timezone |-> W.UTC, attendees |-> <<>>]

Req(text, found, context) == [text |-> text, found |-> found, context |-> context]

BookRequests ==
    {Req(T.book, None, None), Req(T.book, Some(Midnight), None),
     Req(T.book, Some(NineAm), None), Req(T.book_3pm, Some(Midnight), None),
     Req(T.book_13pm, Some(Midnight), None), Req(T.book_later, Some(NineAm), None),
     Req(T.book_1_hour_for_x, Some(NineAm), None),
     Req(T.book_with_al, Some(NineAm), None)}

CancelRequests ==
    {Req(T.cancel, None, None), Req(T.cancel_last, None, None),
     Req(T.cancel_next, None, None), Req(T.cancel_that, None, None),
     Req(T.cancel_that, None, Some(ContextX)), Req(T.cancel_15, None, None),
     Req(T.cancel_call_for_x, None, None)}

EditRequests ==
    {Req(T.move, None, None), Req(T.move, Some(Midnight), None),
     Req(T.move, Some(NineAm), None), Req(T.move_last, Some(NineAm), None),
     Req(T.move_next_for_x, Some(Midnight), None), Req(T.edit, Some(NineAm), None),
     Req(T.edit, Some(NineAm), Some(ContextX)),
     Req(T.move_15min_tz, Some(NineAm), None), Req(T.move_later, Some(NineAm), None)}

OtherRequests ==
    {Req(T.list, None, None), Req(T.free, None, None), Req(T.help, None, None),
     Req(T.hi, None, None), Req(T.next_week_sometime, None, None),
     Req(T.next_week_sometime, Some(NineAm), None)}

Requests == BookRequests \cup CancelRequests \cup EditRequests \cup OtherRequests

\* the clock readings of a list request
Nows == {Midnight, NineAm}

\* the values datetime.utcnow().isoformat() takes in the ledger's statements
Instants == {"T1", "T2"}

\* a < b on date-times
DtLess(a, b) ==
    <<a.month, a.day, a.hour, a.minute>> # <<b.month, b.day, b.hour, b.minute>>
    /\ \/ a.month < b.month
       \/ a.month = b.month /\ a.day < b.day
       \/ a.month = b.month /\ a.day = b.day /\ a.hour < b.hour
       \/ a.month = b.month /\ a.day = b.day /\ a.hour = b.hour /\ a.minute < b.minute

(***************************************************************************)
(* Booking decision engine: handle_user_message                            *)
(***************************************************************************)
VARIABLES
    ledger,   \* the rows of table bookings
    result,   \* what the call of handle_user_message in progress decided;
              \* NoResult between calls
    call,     \* the request of that call (with its intent and slots), or the
              \* arguments given to extract_intent / extract_slots on its own
    returned  \* None, or Some of what extract_intent / extract_slots returned

vars == <<ledger, result, call, returned>>

\* the replies, as the source writes them (f-string fields in braces)
R == [clarify          |-> "Please specify a clear date and time for your event.",
      already          |-> "You already have an event at that time.",
      booked           |-> "Event '{summary}' booked for {start_time} ({timezone}).",
      booked_attendees |->
          "Event '{summary}' booked for {start_time} ({timezone}). Attendees: {attendees}.",
      cancelled        |-> "Cancelled event: '{summary}' at {start_time}",
      no_cancel        |-> "No matching event found to cancel.",
      ask_edit         |-> "Please specify the new date/time or summary for your event.",
      updated          |-> "Updated event to '{summary}' at {start_time} ({timezone}).",
      no_edit          |-> "No matching event found to edit.",
      upcoming         |-> "Here are your upcoming events:{upcoming}",
      held             |-> "Here are your past events:{held}",
      upcoming_held |->
          "Here are your upcoming events:{upcoming}Here are your past events:{held}",
      no_events        |-> "You have no events scheduled.",
      busy             |-> "You are busy at:{bookings}",
      free             |-> "You are free! No events scheduled.",
      help             |-> "You can ask me to book, cancel, edit, or list your events.",
      unknown          |-> "Sorry, I didn't understand. Please try again or type 'help'.",
      failed_to_book   |-> "Failed to book: {error}",
      meeting_booked   |-> "Meeting '{summary}' booked on {dt}",
      booking_failed   |-> "Booking failed. Please try again."]

\* no call yet
NoResult ==
    [intent |-> "", raised |-> FALSE, booking |-> 0, response |-> "",
     held |-> {}, upcoming |-> {}]

\* what a call that returned response leaves in result; booking is the local
\* of the cancel and edit branches (the id of the row, 0 for None), held and
\* upcoming the ids of the rows in the two lists of the list branch
Returned(intent, response) ==
    [NoResult EXCEPT !.intent = intent, !.response = response]

\* lines 319-321 of handle_user_message: every request with the intent and the
\* slots extracted from it
Calls ==
    {[text    |-> r.text,
      found   |-> r.found,
      context |-> r.context,
      intent  |-> extract_intent(r.text),
      slots   |-> extract_slots(r.text, r.found, r.context)] : r \in Requests}

IntentOf(req) == req.intent
SlotsOf(req) == req.slots

\* an end_time that ignores the duration
end_time_is_start(slots) ==
    Get(slots.datetime)

\* end_time of the book and edit branches
end_time_of(slots) ==
    isoformat(AddMinutes(parse_iso(Get(slots.datetime)), slots.duration))

\* extract_slots raises ValueError (dt.replace): the call returns nothing
Raise(req) ==
    /\ SlotsOf(req).raised
    /\ call' = req /\ UNCHANGED returned
    /\ result' = [NoResult EXCEPT !.intent = IntentOf(req), !.raised = TRUE]
    /\ UNCHANGED ledger

\* a book branch that asks for clarification only when there is no date-time
Book_despite_vague_words(req) ==
    LET slots == SlotsOf(req)
        start_time == Get(slots.datetime)
    IN  /\ IntentOf(req) = "book"
        /\ ~slots.raised
        /\ call' = req /\ UNCHANGED returned
        /\ IF ~IsSome(slots.datetime)
           THEN /\ result' = Returned("book", R.clarify)
                /\ UNCHANGED ledger
           ELSE /\ Len(ledger) < MaxBookings
                /\ \E now \in Instants :
                      ledger' = save_booking(ledger, slots.summary, start_time,
                                             start_time, slots.timezone, now)
                /\ result' = Returned("book", R.booked)

\* lines 325-340
Book(req) ==
    LET slots == SlotsOf(req)
        start_time == Get(slots.datetime)
    IN  /\ IntentOf(req) = "book"
        /\ ~slots.raised
        /\ call' = req /\ UNCHANGED returned
        /\ IF slots.ambiguity
           THEN /\ result' = Returned("book", R.clarify)
                /\ UNCHANGED ledger
           ELSE \E bookings \in list_bookings(ledger, "active") :
                   IF \E k \in DOMAIN bookings :
                          /\ bookings[k].start_time = start_time
                          /\ bookings[k].status = "active"
                   THEN /\ result' = Returned("book", R.already)
                        /\ UNCHANGED ledger
                   ELSE /\ Len(ledger) < MaxBookings
                        /\ \E now \in Instants :
                              ledger' = save_booking(ledger, slots.summary, start_time,
                                                     end_time_of(slots), slots.timezone,
                                                     now)
                        /\ result' = Returned("book",
                                              IF slots.attendees # <<>>
                                              THEN R.booked_attendees ELSE R.booked)

\* a target that is always get_last_booking()
target_booking_ignores_reference(rows, slots, context_event) ==
    {get_last_booking(rows)}

\* booking of the cancel and edit branches: the rows it may be (None: no row)
target_booking(rows, slots, context_event) ==
    IF IsSome(slots.reference) /\ Get(slots.reference) # <<>>
    THEN find_booking_by_reference(rows, slots.reference, context_event)
    ELSE {get_last_booking(rows)}

\* lines 341-348
Cancel(req) ==
    LET slots == SlotsOf(req)
    IN  /\ IntentOf(req) = "cancel"
        /\ ~slots.raised
        /\ call' = req /\ UNCHANGED returned
        /\ \E booking \in target_booking(ledger, slots, req.context) :
              IF IsSome(booking)
              THEN /\ \E now \in Instants :
                         ledger' = cancel_booking(ledger, Get(booking).id, now)
                   /\ result' = [Returned("cancel", R.cancelled)
                                    EXCEPT !.booking = Get(booking).id]
              ELSE /\ result' = Returned("cancel", R.no_cancel)
                   /\ UNCHANGED ledger

\* lines 349-361
Edit(req) ==
    LET slots == SlotsOf(req)
    IN  /\ IntentOf(req) = "edit"
        /\ ~slots.raised
        /\ call' = req /\ UNCHANGED returned
        /\ \E booking \in target_booking(ledger, slots, req.context) :
              IF IsSome(booking)
              THEN IF slots.ambiguity
                   THEN /\ result' = [Returned("edit", R.ask_edit)
                                         EXCEPT !.booking = Get(booking).id]
                        /\ UNCHANGED ledger
                   ELSE /\ \E now \in Instants :
                              ledger' = update_booking(ledger, Get(booking).id,
                                                       slots.summary, Get(slots.datetime),
                                                       end_time_of(slots), slots.timezone,
                                                       now)
                        /\ result' = [Returned("edit", R.updated)
                                         EXCEPT !.booking = Get(booking).id]
              ELSE /\ result' = Returned("edit", R.no_edit)
                   /\ UNCHANGED ledger

\* lines 362-377; datetime.now(pytz.UTC) is read once for every row in each of
\* the two comprehensions: clock[k] for held, clock[n + k] for upcoming
List(req) ==
    LET slots == SlotsOf(req)
    IN  /\ IntentOf(req) = "list"
        /\ ~slots.raised
        /\ call' = req /\ UNCHANGED returned
        /\ \E bookings \in list_bookings(ledger, "active") :
           LET n == Len(bookings)
           IN  \E clock \in [1..(2 * n) -> Nows] :
                  /\ \A a, b \in 1..(2 * n) : a < b => ~DtLess(clock[b], clock[a])
                  /\ LET held == {bookings[k].id : k \in
                                     {j \in 1..n : DtLess(parse_iso(bookings[j].start_time),
                                                          clock[j])}}
                         upcoming == {bookings[k].id : k \in
                                         {j \in 1..n :
                                             ~DtLess(parse_iso(bookings[j].start_time),
                                                     clock[n + j])}}
                         response == IF upcoming # {} /\ held # {} THEN R.upcoming_held
                                     ELSE IF upcoming # {} THEN R.upcoming
                                     ELSE IF held # {} THEN R.held
                                     ELSE R.no_events
                     IN  result' = [Returned("list", response)
                                       EXCEPT !.held = held, !.upcoming = upcoming]
        /\ UNCHANGED ledger

\* lines 378-385
Check(req) ==
    LET slots == SlotsOf(req)
    IN  /\ IntentOf(req) = "check"
        /\ ~slots.raised
        /\ call' = req /\ UNCHANGED returned
        /\ \E bookings \in list_bookings(ledger, "active") :
              result' = Returned("check", IF bookings # <<>> THEN R.busy ELSE R.free)
        /\ UNCHANGED ledger

\* lines 386-395
Help(req) ==
    /\ IntentOf(req) = "help"
    /\ ~SlotsOf(req).raised
    /\ call' = req /\ UNCHANGED returned
    /\ result' = Returned("help", R.help)
    /\ UNCHANGED ledger

\* lines 396-397
Unknown(req) ==
    /\ IntentOf(req) = "unknown"
    /\ ~SlotsOf(req).raised
    /\ call' = req /\ UNCHANGED returned
    /\ result' = Returned("unknown", R.unknown)
    /\ UNCHANGED ledger

handle_user_message(req) ==
    \/ Raise(req)
    \/ Book(req)
    \/ Cancel(req)
    \/ Edit(req)
    \/ List(req)
    \/ Check(req)
    \/ Help(req)
    \/ Unknown(req)

NoCall == Req(<<>>, None, None)

Init ==
    /\ ledger = <<>>
    /\ result = NoResult
    /\ call = NoCall
    /\ returned = None

\* the caller takes the result of the call; the next call starts after that
Reply ==
    /\ result # NoResult
    /\ result' = NoResult
    /\ call' = NoCall
    /\ UNCHANGED <<ledger, returned>>

Next ==
    \/ \E req \in Calls : result = NoResult /\ handle_user_message(req)
    \/ Reply

\* any sequence of messages, one handled at a time
Spec == Init /\ [][Next]_vars

(***************************************************************************)
(* The ledger called directly: besides the chat requests, cancel_booking   *)
(* and update_booking with any id.  result records the call and the number *)
(* of rows its UPDATE statement changed.                                   *)
(***************************************************************************)
RowsUpdated(rows, booking_id) ==
    IF \E i \in DOMAIN rows : rows[i].id = booking_id /\ rows[i].status = "active"
    THEN "1 row updated" ELSE "0 rows updated"

CancelBookingCall(booking_id) ==
    /\ \E now \in Instants : ledger' = cancel_booking(ledger, booking_id, now)
    /\ result' = [NoResult EXCEPT !.intent = "cancel_booking",
                                  !.booking = booking_id,
                                  !.response = RowsUpdated(ledger, booking_id)]
    /\ UNCHANGED <<call, returned>>

\* the new values are those of an edit request
UpdateBookingCall(booking_id, req) ==
    /\ IntentOf(req) = "edit"
    /\ ~SlotsOf(req).raised
    /\ IsSome(SlotsOf(req).datetime)
    /\ \E now \in Instants :
          ledger' = update_booking(ledger, booking_id, SlotsOf(req).summary,
                                   Get(SlotsOf(req).datetime), end_time_of(SlotsOf(req)),
                                   SlotsOf(req).timezone, now)
    /\ result' = [NoResult EXCEPT !.intent = "update_booking",
                                  !.booking = booking_id,
                                  !.response = RowsUpdated(ledger, booking_id)]
    /\ UNCHANGED <<call, returned>>

NextLedger ==
    \/ \E req \in Calls : result = NoResult /\ handle_user_message(req)
    \/ \E booking_id \in 1..MaxBookings :
          result = NoResult /\ CancelBookingCall(booking_id)
    \/ \E booking_id \in 1..MaxBookings : \E req \in Calls :
          result = NoResult /\ UpdateBookingCall(booking_id, req)
    \/ Reply

SpecLedger == Init /\ [][NextLedger]_vars

(***************************************************************************)
(* Book requests served concurrently by the transport.  Each request runs  *)
(* the book branch of handle_user_message on the shared ledger; the calls  *)
(* of list_bookings and save_booking are atomic, and requests interleave   *)
(* between them.  call and result hold one entry per request in flight:    *)
(* call[p].pc is the position of request p in the branch.                  *)
(***************************************************************************)
MaxRequests == 2

Requesters == 1..MaxRequests

\* the book requests that get past the ambiguity test of line 326
ClearBookCalls ==
    {req \in Calls : /\ req.intent = "book"
                     /\ ~req.slots.raised
                     /\ ~req.slots.ambiguity}

Idle == [pc |-> "idle", req |-> NoCall]

InitConcurrent ==
    /\ ledger = <<>>
    /\ result = [p \in Requesters |-> NoResult]
    /\ call = [p \in Requesters |-> Idle]
    /\ returned = None

\* lines 319-328: a book request arrives with a clear date-time
Receive(p, req) ==
    /\ call[p].pc = "idle"
    /\ call' = [call EXCEPT ![p] = [pc |-> "list_bookings", req |-> req]]
    /\ UNCHANGED <<ledger, result, returned>>

\* lines 329-334: list_bookings() and the scan of its rows
ScanBookings(p) ==
    /\ call[p].pc = "list_bookings"
    /\ \E bookings \in list_bookings(ledger, "active") :
          IF \E k \in DOMAIN bookings :
                 /\ bookings[k].start_time = Get(call[p].req.slots.datetime)
                 /\ bookings[k].status = "active"
          THEN /\ result' = [result EXCEPT ![p] = Returned("book", R.already)]
               /\ call' = [call EXCEPT ![p].pc = "return"]
          ELSE /\ call' = [call EXCEPT ![p].pc = "save_booking"]
               /\ UNCHANGED result
    /\ UNCHANGED <<ledger, returned>>

\* lines 335-340: the else branch of the scan
SaveBooking(p) ==
    LET slots == call[p].req.slots
    IN  /\ call[p].pc = "save_booking"
        /\ Len(ledger) < MaxBookings
        /\ \E now \in Instants :
              ledger' = save_booking(ledger, slots.summary, Get(slots.datetime),
                                     end_time_of(slots), slots.timezone, now)
        /\ result' = [result EXCEPT ![p] =
                          Returned("book", IF slots.attendees # <<>>
                                           THEN R.booked_attendees ELSE R.booked)]
        /\ call' = [call EXCEPT ![p].pc = "return"]
        /\ UNCHANGED returned

\* lines 399-400: the reply leaves, the transport can serve another request
ReturnReply(p) ==
    /\ call[p].pc = "return"
    /\ call' = [call EXCEPT ![p] = Idle]
    /\ result' = [result EXCEPT ![p] = NoResult]
    /\ UNCHANGED <<ledger, returned>>

NextConcurrent ==
    \E p \in Requesters :
        \/ \E req \in ClearBookCalls : Receive(p, req)
        \/ ScanBookings(p)
        \/ SaveBooking(p)
        \/ ReturnReply(p)

SpecConcurrent == InitConcurrent /\ [][NextConcurrent]_vars

(***************************************************************************)
(* The booking node of the agent graph, the one place that calls the       *)
(* calendar provider's create_event.  provider is what create_event        *)
(* returns when called: the created event, or {'error': ...}.              *)
(***************************************************************************)
\* agent.py line 3 imports the module datetime and line 17 rebinds the name
\* to the class datetime.datetime, which has no attribute datetime
datetime_has_datetime == FALSE

ConfirmCalls ==
    {[slots |-> [date_time |-> d], provider |-> e] :
        d \in {None, Some(isoformat(Midnight)), Some(isoformat(NineAm))},
        e \in {"event", "error"}}

\* confirm_booking_node(state): the try body raises on datetime.datetime or
\* on a missing "date/time" before create_event is reached; no branch calls
\* save_booking
confirm_booking_node(args) ==
    /\ result' = Returned("confirm_booking",
                          IF ~datetime_has_datetime \/ ~IsSome(args.slots.date_time)
                          THEN R.booking_failed
                          ELSE IF args.provider = "error" THEN R.failed_to_book
                          ELSE R.meeting_booked)
    /\ call' = args
    /\ UNCHANGED <<ledger, returned>>

NextConfirm ==
    \/ \E req \in Calls : result = NoResult /\ handle_user_message(req)
    \/ \E args \in ConfirmCalls : result = NoResult /\ confirm_booking_node(args)
    \/ Reply

SpecConfirm == Init /\ [][NextConfirm]_vars

(***************************************************************************)
(* The reference resolver called directly, with any reference and context  *)
(* event, on the ledgers the chat requests build.  result records the id   *)
(* of the row returned (0 for None), call the arguments.                   *)
(***************************************************************************)
\* context events whose summary is in no row / is that of a row in another
\* case, with a date phrase that dateparser.parse could not read
ContextQ == [summary |-> T.q, datetime |-> None,
             duration |-> 30, timezone |-> W.UTC, attendees |-> <<>>]
ContextEVENT == [summary |-> T.EVENT, datetime |-> None,
                 duration |-> 30, timezone |-> W.UTC, attendees |-> <<>>]

ResolveCalls ==
    {[reference |-> Some(r), context |-> None] :
        r \in {W.last, W.next, W.context, T.fifteen, T.T0, T.x, T.X, W.event, T.q}}
    \cup {[reference |-> Some(W.context), context |-> Some(c)] :
             c \in {ContextX, ContextQ, ContextEVENT}}
    \cup {[reference |-> Some(T.x), context |-> Some(ContextQ)]}

FindBookingCall(args) ==
    /\ \E booking \in find_booking_by_reference(ledger, args.reference, args.context) :
          result' = [NoResult EXCEPT
                        !.intent = "find_booking_by_reference",
                        !.booking = IF IsSome(booking) THEN Get(booking).id ELSE 0]
    /\ call' = args
    /\ UNCHANGED <<ledger, returned>>

NextResolve ==
    \/ \E req \in Calls : result = NoResult /\ handle_user_message(req)
    \/ \E args \in ResolveCalls : result = NoResult /\ FindBookingCall(args)
    \/ Reply

SpecResolve == Init /\ [][NextResolve]_vars

(***************************************************************************)
(* The classifier and the slot extractor on their own: the text (and, for  *)
(* the slots, what search_dates found and the context event) is drawn in   *)
(* the initial state, and the function is applied to it.                   *)
(***************************************************************************)
MaxWords == 2

V == [Delete   |-> <<"D","e","l","e","t","e">>,
      meetings |-> <<"m","e","e","t","i","n","g","s">>,
      REMOVE   |-> <<"R","E","M","O","V","E">>,
      Schedule |-> <<"S","c","h","e","d","u","l","e">>,
      set      |-> <<"s","e","t">>,
      up       |-> <<"u","p">>,
      address  |-> <<"a","d","d","r","e","s","s">>,
      lunch    |-> <<"l","u","n","c","h">>,
      Whatever |-> <<"W","h","a","t","e","v","e","r">>]
D == [1_hour     |-> <<"1"," ","h","o","u","r">>,
      1Hour      |-> <<"1","H","o","u","r">>,
      2_hours    |-> <<"2"," ","h","o","u","r","s">>,
      11_hours   |-> <<"1","1"," ","h","o","u","r","s">>,
      45_min     |-> <<"4","5"," ","m","i","n">>,
      5mins      |-> <<"5","m","i","n","s">>,
      90_Minutes |-> <<"9","0"," "," ","M","i","n","u","t","e","s">>,
      for_x      |-> <<"f","o","r"," ","x">>,
      3pm        |-> <<"3","p","m">>,
      13pm       |-> <<"1","3","p","m">>,
      21_hour    |-> <<"2","1"," ","h","o","u","r">>,
      Someday    |-> <<"S","o","m","e","d","a","y">>,
      Not_Sure   |-> <<"N","o","t"," ","S","u","r","e">>,
      sometime   |-> <<"s","o","m","e","t","i","m","e">>,
      next_week_sometime |->
          <<"n","e","x","t"," ","w","e","e","k"," ","s","o","m","e","t","i","m","e">>]

\* the texts of at most n of the given words, joined by single blanks
RECURSIVE Phrases(_, _)
Phrases(words, n) ==
    IF n = 0 THEN {<<>>}
    ELSE LET shorter == Phrases(words, n - 1)
         IN  shorter \cup {IF t = <<>> THEN w ELSE t \o <<" ">> \o w :
                              t \in shorter, w \in words}

\* keywords of every family, in several cases and inside longer words, and
\* words that hold no keyword
IntentVocabulary ==
    {K.cancel, V.Delete, V.REMOVE, K.edit, K.reschedule, K.move, K.change,
     K.book, V.Schedule, V.set, V.up, V.address, K.list, K.show, V.Whatever,
     K.upcoming, K.events, K.history, K.held, V.meetings, K.free, K.slots,
     K.help, K.how, T.hi, V.lunch}

IntentTexts == Phrases(IntentVocabulary, MaxWords)

\* duration phrases, a summary, times of day and a vague word
SlotVocabulary ==
    {D.1_hour, D.1Hour, D.2_hours, D.11_hours, D.45_min, D.5mins, D.90_Minutes,
     D.for_x, D.3pm, D.13pm, W.later, K.book, D.21_hour}

\* vague phrases in several cases, and a word that only resembles one
VaguePhrases ==
    {W.next_week, D.Someday, W.soon, W.whenever, W.some_time, D.Not_Sure,
     D.sometime, D.next_week_sometime}

SlotTexts ==
    Phrases(SlotVocabulary, MaxWords)
        \cup {p : p \in VaguePhrases}
        \cup {K.book \o <<" ">> \o p : p \in VaguePhrases}

InitIntent ==
    /\ ledger = <<>>
    /\ result = NoResult
    /\ returned = None
    /\ call \in {Req(text, None, None) : text \in IntentTexts}

\* agent.extract_intent(call.text)
ExtractIntent ==
    /\ returned' = Some([of |-> "agent.extract_intent",
                         value |-> extract_intent(call.text)])
    /\ UNCHANGED <<ledger, result, call>>

\* calendar_utils.extract_intent(call.text)
UtilsExtractIntent ==
    /\ returned' = Some([of |-> "calendar_utils.extract_intent",
                         value |-> utils_extract_intent(call.text)])
    /\ UNCHANGED <<ledger, result, call>>

NextIntent == ExtractIntent \/ UtilsExtractIntent

SpecIntent == InitIntent /\ [][NextIntent]_vars

InitSlots ==
    /\ ledger = <<>>
    /\ result = NoResult
    /\ returned = None
    /\ call \in {Req(text, found, context) :
                    text \in SlotTexts,
                    found \in {None, Some(Midnight), Some(NineAm)},
                    context \in {None, Some(ContextX)}}

\* agent.extract_slots(call.text, call.context), search_dates giving call.found
ExtractSlots ==
    /\ returned' = Some([of |-> "agent.extract_slots",
                         value |-> extract_slots(call.text, call.found, call.context)])
    /\ UNCHANGED <<ledger, result, call>>

NextSlots == ExtractSlots

SpecSlots == InitSlots /\ [][NextSlots]_vars

(***************************************************************************)
(* The context event read from the chat history.  A message is a record   *)
(* with role and content; dateparser.parse of the date phrase is an input *)
(* (parsed), None when the phrase is not understood.                      *)
(***************************************************************************)
MaxHistory == 3

H == [booked_reply      |-> <<"E","v","e","n","t"," ","'","x","'"," ","b","o","o","k","e","d"," ","f","o","r"," ","2","0","2","5","-","0","6","-","0","1","T","0","0",":","0","0",":","0","0"," ","(","U","T","C",")",".">>,
      cancelled_reply   |-> <<"C","a","n","c","e","l","l","e","d"," ","e","v","e","n","t",":"," ","'","x","'"," ","a","t"," ","2","0","2","5","-","0","6","-","0","1","T","0","0",":","0","0",":","0","0">>,
      updated_reply     |-> <<"U","p","d","a","t","e","d"," ","e","v","e","n","t"," ","t","o"," ","'","x","'"," ","a","t"," ","2","0","2","5","-","0","6","-","0","1","T","0","9",":","0","0",":","0","0"," ","(","U","T","C",")",".">>,
      no_events         |-> <<"Y","o","u"," ","h","a","v","e"," ","n","o"," ","e","v","e","n","t","s"," ","s","c","h","e","d","u","l","e","d",".">>,
      no_cancel         |-> <<"N","o"," ","m","a","t","c","h","i","n","g"," ","e","v","e","n","t"," ","f","o","u","n","d"," ","t","o"," ","c","a","n","c","e","l",".">>,
      unknown           |-> <<"S","o","r","r","y",","," ","I"," ","d","i","d","n","'","t"," ","u","n","d","e","r","s","t","a","n","d","."," ","P","l","e","a","s","e"," ","t","r","y"," ","a","g","a","i","n"," ","o","r"," ","t","y","p","e"," ","'","h","e","l","p","'",".">>,
      scheduled_reply   |-> <<"Y","o","u","r"," ","E","V","E","N","T"," ","'","a"," ","b","'"," ","s","c","h","e","d","u","l","e","d"," ","b","y"," ","'","x","'"," ","f","o","r"," ","M","o","n","d","a","y",","," ","J","u","n","e"," ","2"," ","a","t"," ","3",":","0","0"," ","P","M",".">>,
      cancel_that_event |-> <<"c","a","n","c","e","l"," ","t","h","a","t"," ","e","v","e","n","t">>,
      booked            |-> <<"b","o","o","k","e","d">>,
      scheduled         |-> <<"s","c","h","e","d","u","l","e","d">>,
      updated           |-> <<"u","p","d","a","t","e","d">>,
      cancelled         |-> <<"c","a","n","c","e","l","l","e","d">>,
      for_              |-> <<"f","o","r"," ">>,
      quote_space       |-> <<"'"," ">>]

\* \w over the characters of the replies
IsWordChar(c) == IsAlpha(c) \/ IsDigit(c) \/ c = "_"

\* [\w, :]
IsDatePhraseChar(c) == IsWordChar(c) \/ c = "," \/ c = " " \/ c = ":"

ContextVerbs == {H.booked, H.scheduled, H.updated, H.cancelled}

\* re.search(r"'(.+?)' (?:booked|scheduled|updated|cancelled).*?for ([\w, :]+)",
\* content): None, or the two groups of the leftmost match, the first group
\* as short and the second as long as the pattern allows
context_match(content) ==
    LET n == Len(content)
        NoNewline(a, b) == \A k \in a..b : content[k] # "\n"
        \* where "for " and a character of the date phrase follow position p
        Fors(p) == {q \in p..n : /\ MatchAt(content, q, H.for_)
                                 /\ q + 4 <= n
                                 /\ IsDatePhraseChar(content[q + 4])
                                 /\ NoNewline(p, q - 1)}
        \* the position after "' <verb>" when that stands at j, else 0
        AfterVerb(j) ==
            LET vs == {v \in ContextVerbs : MatchAt(content, j, H.quote_space \o v)}
            IN  IF vs = {} THEN 0 ELSE j + 2 + Len(CHOOSE v \in vs : TRUE)
        Closes(i) == {j \in (i + 2)..n : /\ NoNewline(i + 1, j - 1)
                                         /\ AfterVerb(j) # 0
                                         /\ Fors(AfterVerb(j)) # {}}
        Opens == {i \in 1..n : content[i] = "'" /\ Closes(i) # {}}
    IN  IF Opens = {} THEN None
        ELSE LET i == Min(Opens)
                 j == Min(Closes(i))
                 q == Min(Fors(AfterVerb(j)))
                 e == CHOOSE e \in (q + 4)..n :
                          /\ \A k \in (q + 4)..e : IsDatePhraseChar(content[k])
                          /\ e = n \/ ~IsDatePhraseChar(content[e + 1])
             IN  Some([summary |-> Slice(content, i + 1, j - 1),
                       dt_str  |-> Slice(content, q + 4, e)])

\* the newest message first
reversed(messages) == [k \in 1..Len(messages) |-> messages[Len(messages) + 1 - k]]

get_context_event_from_history(messages, parsed) ==
    LET rev == reversed(messages)
        at == {k \in 1..Len(rev) : /\ rev[k].role = "assistant"
                                   /\ Contains(lower(rev[k].content), W.event)
                                   /\ IsSome(context_match(rev[k].content))}
    IN  IF at = {} THEN None
        ELSE Some([summary   |-> Get(context_match(rev[Min(at)].content)).summary,
                   datetime  |-> IF IsSome(parsed) THEN Some(isoformat(Get(parsed))) ELSE None,
                   duration  |-> 30,
                   timezone  |-> W.UTC,
                   attendees |-> <<>>])

Messages ==
    {[role |-> "assistant", content |-> c] :
        c \in {H.booked_reply, H.cancelled_reply, H.updated_reply, H.no_events,
               H.no_cancel, H.unknown, H.scheduled_reply}}
    \cup {[role |-> "user", content |-> H.cancel_that_event]}

Histories == UNION {[1..n -> Messages] : n \in 0..MaxHistory}

InitContext ==
    /\ ledger = <<>>
    /\ result = NoResult
    /\ returned = None
    /\ call \in {[messages |-> h, parsed |-> d] :
                    h \in Histories, d \in {None, Some(Midnight)}}

\* agent.get_context_event_from_history(call.messages), dateparser.parse
\* giving call.parsed
GetContextEvent ==
    /\ returned' = Some([of |-> "agent.get_context_event_from_history",
                         value |-> get_context_event_from_history(call.messages,
                                                                  call.parsed)])
    /\ UNCHANGED <<ledger, result, call>>

NextContext == GetContextEvent

SpecContext == InitContext /\ [][NextContext]_vars

(***************************************************************************)
(* Properties                                                              *)
(***************************************************************************)
ActiveIds(rows) == {i \in DOMAIN rows : rows[i].status = "active"}
CancelledIds(rows) == {i \in DOMAIN rows : rows[i].status = "cancelled"}
ActiveAt(rows, start_time) ==
    {i \in ActiveIds(rows) : rows[i].start_time = start_time}

\* the greatest element of a non-empty set of integers
Max(S) == CHOOSE x \in S : \A y \in S : y <= x

\* whether the cancel or edit request req carries a reference (ref is truthy)
HasReference(req) ==
    IsSome(req.slots.reference) /\ Get(req.slots.reference) # <<>>

\* minutes from the start of the year to a date-time
RECURSIVE DaysBefore(_)
DaysBefore(month) ==
    IF month = 1 THEN 0 ELSE DaysBefore(month - 1) + DaysInMonth[month - 1]
MinuteOfYear(dt) ==
    ((DaysBefore(dt.month) + dt.day - 1) * 24 + dt.hour) * 60 + dt.minute

\* C1: in every state reachable by book, cancel and edit requests, no two
\* rows with status 'active' have the same start_time.
C1_NoTwoActiveAtSameStart ==
    \A i, j \in ActiveIds(ledger) :
        i # j => ledger[i].start_time # ledger[j].start_time

\* C2: a non-ambiguous book request whose start_time is that of an active row
\* inserts nothing and replies "You already have an event at that time.", so
\* that after the request (and after a second one for the same start_time)
\* exactly one active row has that start_time.
C2_OneActiveRowAfterBook ==
    [][(result'.intent = "book" /\ ~result'.raised /\ ~call'.slots.ambiguity) =>
          /\ ActiveAt(ledger, Get(call'.slots.datetime)) # {}
                => (ledger' = ledger /\ result'.response = R.already)
          /\ Cardinality(ActiveAt(ledger', Get(call'.slots.datetime))) = 1]_vars

\* the first half of C2 alone: the colliding book request is rejected
C2_CollidingBookRejected ==
    [][(result'.intent = "book" /\ ~result'.raised /\ ~call'.slots.ambiguity
           /\ ActiveAt(ledger, Get(call'.slots.datetime)) # {})
          => (ledger' = ledger /\ result'.response = R.already)]_vars

\* C3: a book request whose slots have ambiguity = true leaves the ledger
\* unchanged and replies with the request for a clear date and time.
C3_AmbiguousBookLeavesLedger ==
    [][(result'.intent = "book" /\ ~result'.raised /\ call'.slots.ambiguity)
          => (ledger' = ledger /\ result'.response = R.clarify)]_vars

\* an ambiguous book request answered while a booking is active
C3_Witness ==
    /\ result.intent = "book"
    /\ call.slots.ambiguity
    /\ result.response = R.clarify
    /\ ActiveIds(ledger) # {}

\* C4: cancel_booking(id) on a cancelled row changes no field of any row, and
\* the row a cancel request selects (by reference or by get_last_booking) is
\* never a cancelled one.
C4_CancelOfCancelledIsNoOp ==
    [][/\ (result'.intent = "cancel_booking"
              /\ result'.booking \in CancelledIds(ledger)) => ledger' = ledger
       /\ (result'.intent = "cancel" /\ result'.booking # 0)
             => result'.booking \in ActiveIds(ledger)]_vars

\* cancel_booking was called on a cancelled row beside an active one
C4_Witness ==
    /\ result.intent = "cancel_booking"
    /\ result.response = "0 rows updated"
    /\ result.booking \in CancelledIds(ledger)
    /\ ActiveIds(ledger) # {}

\* C5: no operation removes a row, and once a row is cancelled no later book,
\* cancel or edit (nor a direct cancel_booking or update_booking) changes its
\* status, summary, start_time, end_time or timezone.
C5_CancelledIsAbsorbing ==
    [][/\ Len(ledger') >= Len(ledger)
       /\ \A i \in DOMAIN ledger :
             /\ ledger'[i].id = ledger[i].id
             /\ i \in CancelledIds(ledger) =>
                   /\ ledger'[i].status = "cancelled"
                   /\ ledger'[i].summary = ledger[i].summary
                   /\ ledger'[i].start_time = ledger[i].start_time
                   /\ ledger'[i].end_time = ledger[i].end_time
                   /\ ledger'[i].timezone = ledger[i].timezone]_vars

\* update_booking was called on a cancelled row
C5_Witness ==
    /\ result.intent = "update_booking"
    /\ result.response = "0 rows updated"
    /\ result.booking \in CancelledIds(ledger)

\* whether the reference of the request, or with no reference the ledger,
\* leads to no booking
ResolvesToNone(rows, req) ==
    IF HasReference(req)
    THEN find_booking_by_reference(rows, req.slots.reference, req.context) = {None}
    ELSE ActiveIds(rows) = {}

\* C6: a cancel or edit request that resolves to no booking (in particular
\* when no row is active) leaves the ledger unchanged and replies
\* "No matching event found to cancel." / "No matching event found to edit.".
C6_NoMatchLeavesLedger ==
    [][(result'.intent \in {"cancel", "edit"} /\ ~result'.raised
           /\ (ActiveIds(ledger) = {} \/ ResolvesToNone(ledger, call'))) =>
          /\ ledger' = ledger
          /\ result'.intent = "cancel" => result'.response = R.no_cancel
          /\ result'.intent = "edit" => result'.response = R.no_edit]_vars

\* a cancel request with a reference that matches none of the active rows
C6_Witness ==
    /\ result.intent = "cancel"
    /\ HasReference(call)
    /\ result.response = R.no_cancel
    /\ ActiveIds(ledger) # {}
    /\ CancelledIds(ledger) # {}

\* C7: a cancel request targets the row its reference resolves to when it has
\* a reference, and otherwise the active row with the greatest id; when there
\* is a target, exactly that row goes from 'active' to 'cancelled' (and gets
\* a new updated_at) and nothing else changes.
C7_CancelFlipsExactlyTheTarget ==
    [][(result'.intent = "cancel" /\ ~result'.raised) =>
          LET target == result'.booking
          IN  /\ HasReference(call') =>
                    (IF target = 0 THEN None ELSE Some(ledger[target]))
                        \in find_booking_by_reference(ledger, call'.slots.reference,
                                                      call'.context)
              /\ ~HasReference(call') =>
                    target = (IF ActiveIds(ledger) = {} THEN 0
                              ELSE Max(ActiveIds(ledger)))
              /\ target # 0 =>
                    /\ ledger[target].status = "active"
                    /\ \E now \in Instants :
                          ledger' = [ledger EXCEPT ![target].status = "cancelled",
                                                   ![target].updated_at = now]
                    /\ result'.response = R.cancelled
              /\ target = 0 => ledger' = ledger]_vars

\* a cancel by reference: row 1 was cancelled while the later row 2 is active
C7_Witness ==
    /\ result.intent = "cancel"
    /\ HasReference(call)
    /\ result.response = R.cancelled
    /\ result.booking = 1
    /\ ledger[1].status = "cancelled"
    /\ Len(ledger) >= 2
    /\ ledger[2].status = "active"

\* C8: an edit request whose target is found: if the slots are ambiguous the
\* ledger is unchanged and the reply asks for the new date/time or summary;
\* otherwise the target's summary, start_time, end_time (start + duration
\* minutes) and timezone are overwritten with the slot values, its status
\* stays 'active', and no other row changes.
C8_EditOverwritesTheTarget ==
    [][(result'.intent = "edit" /\ result'.booking # 0) =>
          LET target == result'.booking
              slots == call'.slots
          IN  IF slots.ambiguity
              THEN ledger' = ledger /\ result'.response = R.ask_edit
              ELSE /\ result'.response = R.updated
                   /\ ledger'[target].summary = slots.summary
                   /\ ledger'[target].start_time = Get(slots.datetime)
                   /\ ledger'[target].timezone = slots.timezone
                   /\ MinuteOfYear(parse_iso(ledger'[target].end_time))
                         = MinuteOfYear(parse_iso(Get(slots.datetime)))
                              + slots.duration
                   /\ ledger'[target].status = "active"
                   /\ ledger'[target].id = target
                   /\ Len(ledger') = Len(ledger)
                   /\ \A i \in DOMAIN ledger : i # target => ledger'[i] = ledger[i]
      ]_vars

\* an edit that changed summary, times and timezone of row 1 beside another row
C8_Witness ==
    /\ result.intent = "edit"
    /\ result.response = R.updated
    /\ Len(ledger) >= 2
    /\ result.booking = 1
    /\ ledger[1].summary = call.slots.summary
    /\ ledger[1].timezone # W.UTC
    /\ ledger[1].end_time # ledger[2].end_time

\* the families in the order extract_intent tests them
FamilyNames == <<"cancel", "edit", "book", "list", "check", "help">>
Families == <<CancelWords, EditWords, BookWords, ListWords, CheckWords, HelpWords>>
UtilsFamilies ==
    <<CancelWords, EditWords, BookWords, UtilsListWords, CheckWords, HelpWords>>

\* the lower-case word w occurs in text, letters compared without case
OccursIgnoringCase(text, w) ==
    \E i \in 1..(Len(text) - Len(w) + 1) :
        \A k \in 1..Len(w) : LowerChar(text[i + k - 1]) = w[k]

\* the families with a keyword in text
FamiliesIn(text, families) ==
    {f \in DOMAIN families : \E w \in families[f] : OccursIgnoringCase(text, w)}

\* C9: extract_intent returns exactly one of the seven intents: the name of
\* the first family, in the order cancel, edit, book, list, check, help, that
\* has a keyword occurring in the text (case-insensitive substring); a text
\* with a cancel keyword is cancel whatever else it holds, and a text with no
\* keyword of any family is unknown.
C9_FirstFamilyWins ==
    IsSome(returned) /\ Get(returned).of
            \in {"agent.extract_intent", "calendar_utils.extract_intent"} =>
        LET intent == Get(returned).value
            families == IF Get(returned).of = "agent.extract_intent"
                        THEN Families ELSE UtilsFamilies
            hit == FamiliesIn(call.text, families)
        IN  /\ intent \in Intents
            /\ hit # {} => intent = FamilyNames[Min(hit)]
            /\ 1 \in hit => intent = "cancel"
            /\ hit = {} => intent = "unknown"

\* a text with a book keyword before a cancel keyword in another case
C9_Witness ==
    /\ returned = Some([of |-> "agent.extract_intent", value |-> "cancel"])
    /\ call.text = K.book \o <<" ">> \o V.Delete

\* the numbers N of the occurrences of "<N> min" in text (digits, blanks,
\* then "min" in any case), by the position of their first digit
MinuteCounts(text) ==
    {<<i, j>> \in (DOMAIN text) \X (DOMAIN text) :
        /\ i <= j
        /\ \A k \in i..j : IsDigit(text[k])
        /\ i = 1 \/ ~IsDigit(text[i - 1])
        /\ \E m \in (j + 1)..Len(text) :
              /\ \A k \in (j + 1)..(m - 1) : text[k] = " "
              /\ m + 2 <= Len(text)
              /\ OccursIgnoringCase(Slice(text, m, m + 2), W.min)}

\* the N of the leftmost "<N> min" of a text that has one
FirstMinuteCount(text) ==
    LET first == CHOOSE c \in MinuteCounts(text) :
                     \A d \in MinuteCounts(text) : c[1] <= d[1]
    IN  ParseInt(Slice(text, first[1], first[2]))

SlotsReturned ==
    /\ IsSome(returned)
    /\ Get(returned).of = "agent.extract_slots"
    /\ ~Get(returned).value.raised

C12_ListPartitionsTheBookings ==
    result.intent = "list" =>
        /\ result.held \cap result.upcoming = {}
        /\ result.held \cup result.upcoming = ActiveIds(ledger)

\* w occurs in text
Occurs(text, w) ==
    \E i \in 1..(Len(text) - Len(w) + 1) : SubSeq(text, i, i + Len(w) - 1) = w

\* w occurs in text, letters compared without case
OccursCaseless(text, w) ==
    \E i \in 1..(Len(text) - Len(w) + 1) :
        \A k \in 1..Len(w) : LowerChar(text[i + k - 1]) = LowerChar(w[k])

\* the ids of the active rows in ascending order of their start instant
\* (rows of equal start in either order)
AscendingActive(rows) ==
    LET ids == ActiveIds(rows)
        n == Cardinality(ids)
        at(i) == MinuteOfYear(parse_iso(rows[i].start_time))
    IN  {o \in [1..n -> ids] :
            /\ \A a, b \in 1..n : a # b => o[a] # o[b]
            /\ \A a, b \in 1..n : a < b => at(o[a]) <= at(o[b])}

\* what C13 says the resolver returns when the active rows are listed in
\* the order o: the id of a row, or 0 for absent
ResolvedIn(rows, o, reference, context_event) ==
    LET n == Len(o)
        by_context ==
            {k \in 1..n :
                \/ OccursCaseless(rows[o[k]].summary, Get(context_event).summary)
                \/ /\ IsSome(Get(context_event).datetime)
                   /\ Occurs(rows[o[k]].start_time, Get(Get(context_event).datetime))}
        by_text ==
            {k \in 1..n :
                \/ Occurs(rows[o[k]].start_time, reference)
                \/ OccursCaseless(rows[o[k]].summary, reference)}
    IN  IF n = 0 THEN 0
        ELSE IF reference = W.last THEN o[n]
        ELSE IF reference = W.next THEN o[1]
        ELSE IF reference = W.context /\ IsSome(context_event) /\ by_context # {}
             THEN o[Min(by_context)]
        ELSE IF by_text # {} THEN o[Min(by_text)]
        ELSE 0

\* C13: find_booking_by_reference resolves over the active bookings in
\* ascending start_time order: 'last' gives the last of the list, 'next' the
\* first, 'context' with a context event the first booking whose summary
\* holds the context summary (any case) or whose start_time holds the context
\* datetime, any other reference (and 'context' when that stage matched
\* nothing) the first booking whose start_time holds the reference or whose
\* summary holds it in any case; when no stage matches the result is absent.
C13_ResolvesOverAscendingActive ==
    result.intent = "find_booking_by_reference" =>
        result.booking \in
            {ResolvedIn(ledger, o, Get(call.reference), call.context) :
                o \in AscendingActive(ledger)}

\* 'context' picked row 2, booked after row 1, by the context event
C13_Witness ==
    /\ result.intent = "find_booking_by_reference"
    /\ call.reference = Some(W.context)
    /\ call.context = Some(ContextX)
    /\ ActiveIds(ledger) = {1, 2}
    /\ result.booking = 2

ContextReturned ==
    IsSome(returned) /\ Get(returned).of = "agent.get_context_event_from_history"

\* positions in the history of the assistant messages that hold 'event' in
\* any case
EventMessages(messages) ==
    {k \in DOMAIN messages : /\ messages[k].role = "assistant"
                             /\ OccursCaseless(messages[k].content, W.event)}

\* C14: get_context_event_from_history decides on the most recent assistant
\* message whose content holds 'event' in any case: the result is absent when
\* there is no such message or when that message does not match the pattern,
\* and otherwise the context event read from that message.
C14_DecidesOnMostRecentEventMessage ==
    ContextReturned =>
        LET at == EventMessages(call.messages)
            value == Get(returned).value
        IN  IF at = {} THEN value = None
            ELSE LET m == context_match(call.messages[Max(at)].content)
                 IN  IF ~IsSome(m) THEN value = None
                     ELSE /\ IsSome(value)
                          /\ Get(value).summary = Get(m).summary

\* the newest 'event' reply does not match, an older one does, and a context
\* event is returned from the older one
C14_OlderMessageDecides ==
    /\ ContextReturned
    /\ call.messages = <<[role |-> "assistant", content |-> H.booked_reply],
                         [role |-> "assistant", content |-> H.cancelled_reply]>>
    /\ IsSome(Get(returned).value)

\* C15: a booking made while the provider's create_event fails still adds
\* the booking to the ledger as an active row, and the reply reports the
\* provider's error.
C15_ProviderFailureKeepsLocalRecord ==
    [][(result'.intent = "confirm_booking" /\ call'.provider = "error"
            /\ IsSome(call'.slots.date_time))
        => /\ Len(ledger') = Len(ledger) + 1
           /\ ledger'[Len(ledger')].status = "active"
           /\ ledger'[Len(ledger')].start_time = Get(call'.slots.date_time)
           /\ result'.response = R.failed_to_book]_vars

\* C16: every call of handle_user_message returns a result with a reply
\* string; none raises instead of replying.
C16_EveryCallReplies ==
    result # NoResult => ~result.raised /\ result.response # ""

\* C17: the message 'next week sometime' is handled as an ambiguous book
\* request: ambiguity is true, the intent is book, the reply asks for a clear
\* date and time, and the ledger is unchanged.
C17_NextWeekSometimeIsAmbiguousBook ==
    [][(call'.text = T.next_week_sometime /\ result' # NoResult)
        => /\ call'.slots.ambiguity
           /\ result'.intent = "book"
           /\ result'.response = R.clarify
           /\ ledger' = ledger]_vars

\* C18: a request classified list, check, help or unknown leaves the ledger
\* as it was, rows and fields; and whenever a request changes the ledger, the
\* change is one row appended by a book request, or one row going from active
\* to cancelled in a cancel request, or the fields of one active row
\* overwritten in an edit request (every other row and the row count kept).
C18_ReadOnlyAndSingleMutations ==
    [][result' # NoResult =>
          LET changed == {k \in DOMAIN ledger : ledger'[k] # ledger[k]}
          IN  /\ result'.intent \in {"list", "check", "help", "unknown"}
                    => ledger' = ledger
              /\ ledger' # ledger =>
                    \/ /\ result'.intent = "book"
                       /\ Len(ledger') = Len(ledger) + 1
                       /\ SubSeq(ledger', 1, Len(ledger)) = ledger
                    \/ /\ result'.intent = "cancel"
                       /\ Len(ledger') = Len(ledger)
                       /\ \E k \in DOMAIN ledger :
                             /\ changed = {k}
                             /\ ledger[k].status = "active"
                             /\ \E now \in Instants :
                                   ledger'[k] = [ledger[k] EXCEPT !.status = "cancelled",
                                                                  !.updated_at = now]
                    \/ /\ result'.intent = "edit"
                       /\ Len(ledger') = Len(ledger)
                       /\ \E k \in DOMAIN ledger :
                             /\ changed = {k}
                             /\ ledger[k].status = "active"
                             /\ ledger'[k].status = "active"
                             /\ ledger'[k].id = ledger[k].id]_vars

\* a list request answered on a ledger with an active and a cancelled row
C18_Witness ==
    /\ result.intent = "list"
    /\ call.text = T.list
    /\ ActiveIds(ledger) # {}
    /\ CancelledIds(ledger) # {}

\* the occurrences of "<N> hour" in text (a whole run of digits, blanks, then
\* "hour" in any case), by the positions of the first and last digit
HourCounts(text) ==
    {<<i, j>> \in (DOMAIN text) \X (DOMAIN text) :
        /\ i <= j
        /\ \A k \in i..j : IsDigit(text[k])
        /\ i = 1 \/ ~IsDigit(text[i - 1])
        /\ \E m \in (j + 1)..Len(text) :
              /\ \A k \in (j + 1)..(m - 1) : text[k] = " "
              /\ m + 3 <= Len(text)
              /\ OccursIgnoringCase(Slice(text, m, m + 3), W.hour)}

\* C19: for a text with one duration phrase, "<N> hour" or "<N> hours" with
\* N positive, no minute phrase and no context event, extract_slots returns
\* duration = N * 60, for every N (11 and 21 included).
C19_HoursTimesSixty ==
    (/\ SlotsReturned
     /\ call.context = None
     /\ MinuteCounts(call.text) = {}
     /\ Cardinality(HourCounts(call.text)) = 1) =>
        \A c \in HourCounts(call.text) :
            ParseInt(Slice(call.text, c[1], c[2])) > 0 =>
                Get(returned).value.duration
                    = ParseInt(Slice(call.text, c[1], c[2])) * 60

\* C20: of the book requests in flight for one start_time, at most one
\* inserts a row (is answered 'booked'), and the ledger never holds two
\* active rows with that start_time.
C20_ConcurrentBooksInsertOnce ==
    /\ \A p, q \in Requesters :
          (/\ p # q
           /\ result[p].response \in {R.booked, R.booked_attendees}
           /\ result[q].response \in {R.booked, R.booked_attendees})
              => call[p].req.slots.datetime # call[q].req.slots.datetime
    /\ \A i, j \in ActiveIds(ledger) :
          i # j => ledger[i].start_time # ledger[j].start_time
====
